---- MODULE Spec2Model ----
(***************************************************************************)
(* PortfolioForge: the resume-to-portfolio generator.                      *)
(*                                                                         *)
(* Three deployments of the generate pipeline are modelled:                *)
(*   "express"  src/server.js (in-memory store `portfolios`)               *)
(*   "netlify"  src/unnamed/part_000 (hosted table, type 'ai' | 'manual')  *)
(*   "gp"       src/generate-portfolio.js (hosted table, resumeText |      *)
(*              manualData)                                                *)
(* A behaviour runs one deployment (chosen in Init).  A request is a       *)
(* process whose steps are the handler's synchronous segments between its  *)
(* await points; the external collaborators (PDF text extraction, the      *)
(* generative model, the hosted table) answer nondeterministically.        *)
(*                                                                         *)
(* JavaScript strings are modelled as sequences of tokens (a token is a    *)
(* run of characters the code never splits); JavaScript values carry their *)
(* type in the field t.                                                    *)
(***************************************************************************)
EXTENDS Integers, Sequences, FiniteSets, TLC

\* ------------------------------------------------------------------ bounds
\* Number of request slots that can be in flight at the same time.
MaxSlots == 1
\* Number of requests started in one behaviour.
MaxRequests == 2
\* Number of identifiers the identifier generator can hand out.
MaxIds == 2
\* Number of resume-generate requests in flight at the same time, where
\* requests interleave.
MaxConcurrent == 2

Slots == 1..MaxSlots
Ids == 1..MaxIds

\* -------------------------------------------------------- JavaScript values
Undef == [t |-> "undefined"]
JNull == [t |-> "null"]
Num == [t |-> "number"]
Str(s) == [t |-> "string", s |-> s]

\* ToBoolean, as `if (x)`, `!x` and `a || b` apply it.  Num stands for a
\* non-zero number.
Truthy(v) ==
    CASE v.t = "undefined" -> FALSE
      [] v.t = "null" -> FALSE
      [] v.t = "string" -> v.s # <<>>
      [] OTHER -> TRUE

\* a || b
OrElse(a, b) == IF Truthy(a) THEN a ELSE b

\* Whitespace tokens (what String.prototype.trim removes at both ends).
WS == {" ", "\n", "\r"}

RECURSIVE TrimStart(_)
TrimStart(s) ==
    IF s # <<>> /\ Head(s) \in WS THEN TrimStart(Tail(s)) ELSE s

RECURSIVE TrimEnd(_)
TrimEnd(s) ==
    IF s # <<>> /\ s[Len(s)] \in WS THEN TrimEnd(SubSeq(s, 1, Len(s) - 1)) ELSE s

\* String.prototype.trim
Trim(s) == TrimEnd(TrimStart(s))

\* String.prototype.startsWith, for a prefix that is one token
StartsWith(s, tok) == s # <<>> /\ Head(s) = tok

\* --------------------------------------------------------------- Theme Table
ThemeSoftwareDeveloper ==
    [t |-> "object", name |-> <<"Developer Dark">>,
     background |-> "bg-gray-900 text-white", primaryColor |-> "bg-blue-500",
     secondaryColor |-> "text-blue-400", card |-> "bg-gray-800",
     font |-> "font-mono", buttonStyle |-> "bg-blue-600 hover:bg-blue-700"]

ThemeGraphicDesigner ==
    [t |-> "object", name |-> <<"Designer Light">>,
     background |-> "bg-white text-gray-800", primaryColor |-> "bg-pink-500",
     secondaryColor |-> "text-pink-500", card |-> "bg-gray-50",
     font |-> "font-sans", buttonStyle |-> "bg-pink-600 hover:bg-pink-700"]

ThemeDataScientist ==
    [t |-> "object", name |-> <<"Data Green">>,
     background |-> "bg-gray-800 text-gray-100", primaryColor |-> "bg-green-500",
     secondaryColor |-> "text-green-400", card |-> "bg-gray-700",
     font |-> "font-sans", buttonStyle |-> "bg-green-600 hover:bg-green-700"]

ThemeDefault ==
    [t |-> "object", name |-> <<"Professional Blue">>,
     background |-> "bg-gray-100 text-gray-900", primaryColor |-> "bg-indigo-600",
     secondaryColor |-> "text-indigo-500", card |-> "bg-white",
     font |-> "font-sans", buttonStyle |-> "bg-indigo-600 hover:bg-indigo-700"]

\* generate-portfolio.js carries its own copy of the table; its Default entry
\* has a different buttonStyle.
ThemeDefaultGP ==
    [ThemeDefault EXCEPT !.buttonStyle = "bg-indigo-700 hover:bg-indigo-800"]

KeySoftwareDeveloper == <<"Software Developer">>
KeyGraphicDesigner == <<"Graphic Designer">>
KeyDataScientist == <<"Data Scientist">>
KeyDefault == <<"Default">>

\* The own keys of the `themes` object literal.
ThemeKeys == {KeySoftwareDeveloper, KeyGraphicDesigner, KeyDataScientist, KeyDefault}

\* The `themes` object of server.js and of the unnamed variant.
themes ==
    [k \in ThemeKeys |->
        CASE k = KeySoftwareDeveloper -> ThemeSoftwareDeveloper
          [] k = KeyGraphicDesigner -> ThemeGraphicDesigner
          [] k = KeyDataScientist -> ThemeDataScientist
          [] OTHER -> ThemeDefault]

\* The `themes` object of generate-portfolio.js.
themesGP == [themes EXCEPT ![KeyDefault] = ThemeDefaultGP]

\* `themes` is an object literal, so it inherits Object.prototype: these
\* property names resolve to inherited functions.
ObjectPrototypeKeys == {<<"constructor">>, <<"toString">>}

\* The inherited member under key k: a function whose .name is "Object" for
\* the constructor and the key itself for a method.
InheritedMember(k) ==
    [t |-> "function",
     name |-> IF k = <<"constructor">> THEN <<"Object">> ELSE k]

\* table[key] on an object literal: own property, inherited property, or
\* undefined.
PropGet(table, key) ==
    IF key \in DOMAIN table THEN table[key]
    ELSE IF key \in ObjectPrototypeKeys THEN InheritedMember(key)
    ELSE Undef

\* themes[profession] || themes['Default']
ThemeLookup(table, profession) ==
    OrElse(PropGet(table, profession), table[KeyDefault])

\* ------------------------------------------------------ Username Normalizer
\* convertUsernameToUrl(platform, username).  The result is [ok, v]: ok is
\* FALSE when the call throws (username.startsWith is not a function for a
\* truthy non-string).
convertUsernameToUrl(platform, username) ==
    IF ~Truthy(username) THEN [ok |-> TRUE, v |-> Str(<<>>)]
    ELSE IF username.t # "string" THEN [ok |-> FALSE, v |-> Undef]
    ELSE IF StartsWith(username.s, "http://") \/ StartsWith(username.s, "https://")
         THEN [ok |-> TRUE, v |-> username]
    ELSE IF platform = "linkedin"
         THEN [ok |-> TRUE, v |-> Str(<<"https://", "linkedin.com/in/">> \o username.s)]
    ELSE IF platform = "github"
         THEN [ok |-> TRUE, v |-> Str(<<"https://", "github.com/">> \o username.s)]
    ELSE [ok |-> TRUE, v |-> username]

\* ---------------------------------------------------- Extractor reply parsing
\* Tokens of a model reply: "<fence-json>" (three backticks and the word json),
\* "<fence>" (three backticks), whitespace,
\* the braces, "kv" (the members text of an object: keys, values, commas),
\* "null" (the JSON literal), "prose" (any text that is not JSON) and "json"
\* (the word left over when only the backticks of "<fence-json>" are cut).
ReplyTokens ==
    {"<fence-json>", "<fence>", "\n", "\r", " ", "{", "}", "kv", "null", "prose", "json"}

\* The two chained replace calls: every fence-json marker goes, then every
\* fence marker.
StripFences(s) == SelectSeq(s, LAMBDA tok : tok \notin {"<fence-json>", "<fence>"})

\* The single replace of generate-portfolio.js, whose first alternative asks
\* for a newline after the word json: "<fence-json>" goes whole only when a newline
\* follows it (the newline goes too); otherwise only its backticks go and
\* the word "json" stays.
RECURSIVE StripFencesGP(_)
StripFencesGP(s) ==
    IF s = <<>> THEN <<>>
    ELSE IF Head(s) = "<fence-json>"
         THEN IF Len(s) >= 2 /\ s[2] = "\n"
              THEN StripFencesGP(SubSeq(s, 3, Len(s)))
              ELSE <<"json">> \o StripFencesGP(Tail(s))
    ELSE IF Head(s) = "<fence>" THEN StripFencesGP(Tail(s))
    ELSE <<Head(s)>> \o StripFencesGP(Tail(s))

Positions(s, tok) == {i \in 1..Len(s) : s[i] = tok}
MinOf(S) == CHOOSE x \in S : \A y \in S : x <= y
MaxOf(S) == CHOOSE x \in S : \A y \in S : x >= y

\* jsonText.match(/\{[\s\S]*\}/): the span from the first "{" to the last "}"
\* (greedy), or no match.  The result is [found, text].
BraceMatch(s) ==
    IF Positions(s, "{") # {} /\ Positions(s, "}") # {}
       /\ MinOf(Positions(s, "{")) < MaxOf(Positions(s, "}"))
    THEN [found |-> TRUE,
          text |-> SubSeq(s, MinOf(Positions(s, "{")), MaxOf(Positions(s, "}")))]
    ELSE [found |-> FALSE, text |-> <<>>]

\* if (!jsonText.startsWith('{')) { const m = jsonText.match(...); if (m) jsonText = m[0]; }
BraceFallback(s) ==
    IF StartsWith(s, "{") THEN s
    ELSE IF BraceMatch(s).found THEN BraceMatch(s).text
    ELSE s

\* Whether the tokens from position i on, entered at nesting depth d > 0,
\* close the outermost object exactly at the last token.
RECURSIVE ClosesAtEnd(_, _, _)
ClosesAtEnd(s, i, d) ==
    IF i > Len(s) THEN FALSE
    ELSE IF s[i] = "kv" THEN ClosesAtEnd(s, i + 1, d)
    ELSE IF s[i] = "{" THEN ClosesAtEnd(s, i + 1, d + 1)
    ELSE IF s[i] = "}" THEN IF d = 1 THEN i = Len(s) ELSE ClosesAtEnd(s, i + 1, d - 1)
    ELSE FALSE

NoWS(s) == SelectSeq(s, LAMBDA tok : tok \notin WS)

\* JSON.parse on the token text: "object" for one well-formed object,
\* "null" for the literal null, "error" when it throws SyntaxError.
JSONParse(s) ==
    IF NoWS(s) = <<"null">> THEN "null"
    ELSE IF NoWS(s) # <<>> /\ Head(NoWS(s)) = "{" /\ ClosesAtEnd(NoWS(s), 2, 1) THEN "object"
    ELSE "error"

\* The text parseResumeWithAI hands to JSON.parse (server.js and the unnamed
\* variant).
ExtractJsonText(text) == BraceFallback(Trim(StripFences(text)))

\* The text generateFromResume hands to JSON.parse (generate-portfolio.js):
\* no brace fallback.
ExtractJsonTextGP(text) == Trim(StripFencesGP(text))

\* ------------------------------------------------------------------ rendering
\* A JavaScript array.
Arr(items) == [t |-> "array", items |-> items]

\* o.f for an object o: the member, or undefined when o has none of that name.
Get(o, f) == IF f \in DOMAIN o THEN o[f] ELSE Undef

\* Reading a member of v does not throw (v is neither null nor undefined).
CanRead(v) == v.t \notin {"undefined", "null"}

\* `${v}` inside a template literal.
ToText(v) ==
    CASE v.t = "string" -> v.s
      [] v.t = "undefined" -> <<"undefined">>
      [] v.t = "null" -> <<"null">>
      [] v.t = "number" -> <<"42">>
      [] v.t = "array" -> <<"[array]">>
      [] OTHER -> <<"[object Object]">>

\* `${v || placeholder}`
TextOr(v, placeholder) == IF Truthy(v) THEN ToText(v) ELSE placeholder

\* `${v ? markup(v) : otherwise}`
TextIf(v, tag, otherwise) == IF Truthy(v) THEN <<tag>> \o ToText(v) ELSE otherwise

\* pieces.join('')
RECURSIVE JoinAll(_)
JoinAll(pieces) ==
    IF pieces = <<>> THEN <<>> ELSE Head(pieces) \o JoinAll(Tail(pieces))

\* (v || []): the items mapped over.
Items(v) == IF Truthy(v) THEN v.items ELSE <<>>

\* (v || []).map is not a function: v is truthy and no array.
NotArray(v) == Truthy(v) /\ v.t # "array"

\* text || placeholder, for the joined markup of a section
OrPlaceholder(text, placeholder) == IF text = <<>> THEN placeholder ELSE text

NoSummary == <<"No summary provided.">>
NoExperience == <<"<p>", "No work experience listed.", "</p>">>
NoSkills == <<"<p>", "No skills listed.", "</p>">>
NoProjects == <<"<p>", "No projects listed.", "</p>">>
NoName == <<"Your Name">>
NoEmail == <<"your.email@example.com">>
NoTitle == <<"Portfolio">>
NoDescription == <<"Professional portfolio">>

\* The markup of one project, one job and one skill (the same in both
\* renderers up to class names).
RenderProject_Empty(proj) == <<>>

RenderProject(proj) ==
    <<"<project>">> \o TextOr(Get(proj, "title"), <<"Project Title">>)
        \o TextOr(Get(proj, "description"), <<>>)
        \o TextIf(Get(proj, "link"), "<a>", <<>>) \o <<"</project>">>

RenderDescriptionLine(d) == <<"<li>">> \o ToText(d)

RenderJob(job) ==
    <<"<job>">> \o TextOr(Get(job, "role"), <<"Role">>) \o <<" at ">>
        \o TextOr(Get(job, "company"), <<"Company">>)
        \o TextOr(Get(job, "dates"), <<>>)
        \o JoinAll([i \in 1..Len(Items(Get(job, "description"))) |->
                        RenderDescriptionLine(Items(Get(job, "description"))[i])])
        \o <<"</job>">>

RenderSkill(skill) == <<"<skill>">> \o ToText(skill)

\* (list || []).map(...).join('') for the three lists.
RenderProjects(projects) ==
    JoinAll([i \in 1..Len(Items(projects)) |-> RenderProject(Items(projects)[i])])
RenderExperience(experience) ==
    JoinAll([i \in 1..Len(Items(experience)) |-> RenderJob(Items(experience)[i])])
RenderSkills(skills) ==
    JoinAll([i \in 1..Len(Items(skills)) |-> RenderSkill(Items(skills)[i])])

\* The sections both renderers build from personalInfo and the profile's
\* summary, skills, experience and projects.
Sections(personalInfo, summary, skills, experience, projects) ==
    [name |-> TextOr(Get(personalInfo, "name"), NoName),
     email |-> TextIf(Get(personalInfo, "email"), "<mailto>", NoEmail),
     phone |-> TextIf(Get(personalInfo, "phone"), "<phone>", <<>>),
     linkedin |-> TextIf(Get(personalInfo, "linkedin"), "<a>", <<>>),
     github |-> TextIf(Get(personalInfo, "github"), "<a>", <<>>),
     website |-> TextIf(Get(personalInfo, "website"), "<a>", <<>>),
     summary |-> TextOr(summary, NoSummary),
     experience |-> OrPlaceholder(RenderExperience(experience), NoExperience),
     skills |-> OrPlaceholder(RenderSkills(skills), NoSkills),
     projects |-> OrPlaceholder(RenderProjects(projects), NoProjects)]

\* Mapping over a list throws TypeError: the list is truthy and no array, or
\* a member is read of an item that is null or undefined, or a job's
\* description is truthy and no array.
ListsThrow(skills, experience, projects) ==
    \/ NotArray(skills)
    \/ NotArray(experience)
    \/ NotArray(projects)
    \/ \E i \in 1..Len(Items(projects)) : ~CanRead(Items(projects)[i])
    \/ \E i \in 1..Len(Items(experience)) :
          \/ ~CanRead(Items(experience)[i])
          \/ NotArray(Get(Items(experience)[i], "description"))

\* The template of GET /portfolio/:id evaluates without a TypeError.
RenderExpressThrows(portfolio) ==
    \/ ~CanRead(portfolio.data)
    \/ /\ Truthy(portfolio.profilePictureUrl)
       /\ portfolio.profilePictureUrl.t # "string"
    \/ ~CanRead(portfolio.theme)
    \/ "secondaryColor" \notin DOMAIN portfolio.theme
    \/ ListsThrow(Get(portfolio.data, "skills"), Get(portfolio.data, "experience"),
                  Get(portfolio.data, "projects"))

\* const personalInfo = portfolio.data.personalInfo || {};
EmptyObject == [t |-> "object"]

\* imageUrl of GET /portfolio/:id, from the request's origin
\* (`${req.protocol}://${req.get('host')}`): the image endpoint's URL for a
\* picture that is no data URL, else a placeholder that carries the name.
OgImageUrl(portfolio, origin, id) ==
    IF Truthy(portfolio.profilePictureUrl)
       /\ ~StartsWith(portfolio.profilePictureUrl.s, "data:")
    THEN [origin |-> origin, path |-> "/api/portfolio-image/", id |-> id]
    ELSE [placeholder |->
            TextOr(Get(OrElse(Get(portfolio.data, "personalInfo"), EmptyObject), "name"),
                   NoTitle)]

\* The document GET /portfolio/:id sends for a stored record: its sections,
\* the head's title, description, og:url and og:image, the <img> source and
\* the theme classes of <body>.
RenderExpress(portfolio, imageUrl, portfolioUrl) ==
    LET personalInfo == OrElse(Get(portfolio.data, "personalInfo"), EmptyObject)
    IN [url |-> portfolioUrl,
        ogImage |-> imageUrl,
        sections |-> Sections(personalInfo, Get(portfolio.data, "summary"),
                              Get(portfolio.data, "skills"),
                              Get(portfolio.data, "experience"),
                              Get(portfolio.data, "projects")),
        title |-> TextOr(Get(personalInfo, "name"), NoTitle),
        description |-> TextOr(Get(portfolio.data, "summary"), NoDescription),
        image |-> ToText(portfolio.profilePictureUrl),
        bodyClass |-> IF "background" \in DOMAIN portfolio.theme
                      THEN portfolio.theme.background ELSE "undefined"]

\* getThemeStyles(themeName): the switch's branch, by its bodyClass.
getThemeStyles(themeName) ==
    CASE themeName = Str(KeySoftwareDeveloper) -> "bg-gray-900 text-white"
      [] themeName = Str(KeyGraphicDesigner) -> "bg-white text-gray-800"
      [] themeName = Str(KeyDataScientist) -> "bg-gray-800 text-gray-100"
      [] OTHER -> "bg-gray-100 text-gray-900"

\* generatePortfolioHTML(data) throws: portfolio_data cannot be destructured,
\* personalInfo.name cannot be read, or a list is no array.
generatePortfolioHTMLThrows(data) ==
    \/ ~CanRead(data.portfolio_data)
    \/ ~CanRead(Get(data.portfolio_data, "personalInfo"))
    \/ ListsThrow(Get(data.portfolio_data, "skills"),
                  Get(data.portfolio_data, "experience"),
                  Get(data.portfolio_data, "projects"))

\* generatePortfolioHTML(data) of get-portfolio.js, for a row it can render.
generatePortfolioHTML(data) ==
    LET personalInfo == Get(data.portfolio_data, "personalInfo")
    IN [url |-> [origin |-> <<"process.env.URL">>, path |-> "/shared/",
                 id |-> data.share_id],
        sections |-> Sections(personalInfo, Get(data.portfolio_data, "summary"),
                              Get(data.portfolio_data, "skills"),
                              Get(data.portfolio_data, "experience"),
                              Get(data.portfolio_data, "projects")),
        title |-> TextOr(Get(personalInfo, "name"), NoTitle),
        description |-> TextOr(Get(data.portfolio_data, "summary"), NoDescription),
        image |-> TextOr(data.profile_picture_url,
                        <<"https://", "via.placeholder.com/150">>),
        bodyClass |-> getThemeStyles(data.selected_theme)]

\* ------------------------------------------------------------------ inputs
\* Values a linkedin / github / name field can hold.
BareLinkedin == Str(<<"johndoe">>)
BareGithub == Str(<<"octocat">>)
UrlGithub == Str(<<"https://", "github.com/", "octocat">>)
NameAda == Str(<<"A", "da">>)

\* personalInfo objects.
PersonalInfo(name, linkedin, github) ==
    [t |-> "object", name |-> name, linkedin |-> linkedin, github |-> github]

\* A profile object.  server.js and the unnamed variant nest the social
\* fields under personalInfo; generate-portfolio.js asks the model for flat
\* "linkedin" and "github" keys and adds "profession".
Profile(personalInfo, linkedin, github, profession) ==
    [t |-> "object", personalInfo |-> personalInfo, linkedin |-> linkedin,
     github |-> github, profession |-> profession]

\* Objects the extraction reply can hold (server.js, unnamed variant).
ExtractedObjects ==
    { Profile(PersonalInfo(NameAda, BareLinkedin, UrlGithub), Undef, Undef, Undef),
      Profile(PersonalInfo(JNull, JNull, BareGithub), Undef, Undef, Undef),
      Profile(PersonalInfo(NameAda, Num, JNull), Undef, Undef, Undef),
      Profile(JNull, Undef, Undef, Undef) }

\* Objects the extraction reply can hold (generate-portfolio.js).
ExtractedObjectsGP ==
    { Profile(Undef, BareLinkedin, UrlGithub, Undef),
      Profile(Undef, JNull, BareGithub, Undef) }

\* Replies of the model to the extraction prompt.
ReplyTexts ==
    { <<"{", "kv", "}">>,
      <<"<fence-json>", "\n", "{", "kv", "}", "\n", "<fence>">>,
      <<"prose", "{", "kv", "{", "kv", "}", "}", "prose">>,
      <<"{", "kv">>,
      <<"prose">>,
      <<"null">> }

\* Replies of the model to the classification prompt.
LabelTexts ==
    { <<"Software Developer">>,
      <<" ", "Data Scientist", "\n">>,
      <<"Default">>,
      <<>>,
      <<"Plumber">>,
      <<"constructor">> }

\* Texts the PDF library can extract.
ResumeTexts == { <<>>, <<" ", "\n">>, <<"resume">> }

\* The photo upload as a data URL: data:<mimetype>;base64,<bytes>
PhotoDataUrl == Str(<<"data:", "image/png", ";base64,", "iVBORw0KGgo=">>)

\* Themes a client can send in a manual or update body.
ClientThemes == {Undef, ThemeDefault, ThemeSoftwareDeveloper}

\* portfolioData a client can send in a manual or update body.
ClientPortfolioData ==
    { Undef,
      Profile(PersonalInfo(NameAda, BareLinkedin, JNull), Undef, Undef, Undef),
      Profile(PersonalInfo(JNull, UrlGithub, BareGithub), Undef, Undef, Undef),
      Profile(Undef, Undef, Undef, Undef) }

\* Identifiers a client can put in a URL besides UUIDs: the name of a
\* member every object inherits ("constructor"), here -1, and any other
\* text that is no UUID, here -2.
PrototypeIds == {-1}
ClientIds == Ids \cup PrototypeIds \cup {-2}

\* uuidRegex.test(id)
uuidRegexTest(id) == id \in Ids

\* A profile for viewing.
ViewProfile(personalInfo, summary, skills, experience, projects) ==
    [t |-> "object", personalInfo |-> personalInfo, summary |-> summary,
     skills |-> skills, experience |-> experience, projects |-> projects]

\* Profiles the hosted table can hold: the unnamed variant stores
\* body.portfolioData, and the extracted object, as they come.  Each section
\* a view renders is present, absent or null; personalInfo has its name and
\* email present or not; the lists are empty or hold an item, and projects
\* can be no array at all.
ViewProfilesHosted ==
    {ViewProfile(pi, s, k, e, p) :
        pi \in {[t |-> "object", name |-> n, email |-> m,
                 linkedin |-> Undef, github |-> Undef] :
                    n \in {Undef, JNull, NameAda},
                    m \in {Undef, Str(<<"ada@example.com">>)}}
               \cup {Undef, JNull},
        s \in {Undef, JNull, Str(<<"Engineer and writer.">>)},
        k \in {Undef, Arr(<<>>), Arr(<<Str(<<"mathematics">>)>>)},
        e \in {JNull, Arr(<<>>),
               Arr(<<[t |-> "object", role |-> Str(<<"Engineer">>), company |-> JNull,
                      description |-> Arr(<<Str(<<"Built the engine.">>)>>)]>>)},
        p \in {Undef, JNull, Arr(<<>>),
               Arr(<<[t |-> "object", title |-> Str(<<"Engine">>), description |-> JNull,
                      link |-> Str(<<"https://", "example.com/engine">>)]>>),
               Arr(<<[t |-> "object", title |-> Str(<<"Engine">>), description |-> JNull,
                      link |-> Str(<<"https://", "example.com/engine">>)],
                     [t |-> "object", title |-> JNull]>>),
               Str(<<"none yet">>)}}

\* Profiles the in-memory store can hold: create and update read
\* portfolioData.personalInfo's members, so personalInfo is an object.
ViewProfilesExpress == {d \in ViewProfilesHosted : d.personalInfo.t = "object"}

\* ------------------------------------------------------------------- state
VARIABLES
    deployment,   \* which of the three programs this process runs
    portfolios,   \* server.js: the in-memory store, identifier -> record
    table,        \* hosted variants: the rows of the `portfolios` table
    req,          \* per slot: the request in flight there, if any
    last,         \* the request the last step answered, with its response
    issued,       \* identifiers uuidv4 has returned so far
    started,      \* number of requests started so far
    succeeded     \* number of create requests answered 200 so far

vars == <<deployment, portfolios, table, req, last, issued, started, succeeded>>

NoInput == [none |-> TRUE]

IdleReq ==
    [n |-> 0, op |-> "idle", pc |-> "idle", branch |-> "none", in |-> NoInput, text |-> Undef,
     extract |-> "none", classify |-> "none", label |-> <<>>,
     data |-> Undef, theme |-> Undef, pic |-> Undef, id |-> 0,
     row |-> NoInput, nExtract |-> 0, nClassify |-> 0, nPersist |-> 0,
     status |-> 0, error |-> <<>>, thrown |-> <<>>, page |-> NoInput,
     prev |-> NoInput]

Init ==
    /\ deployment \in {"express", "netlify", "gp"}
    /\ portfolios = <<>>
    /\ table = <<>>
    /\ req = [r \in Slots |-> IdleReq]
    /\ last = IdleReq
    /\ issued = {}
    /\ started = 0
    /\ succeeded = 0

\* A slot can take a new request when it holds none.
Free(r) == req[r].pc = "idle" /\ started < MaxRequests

\* A fresh request record; n numbers the requests in the order they arrive.
NewReq(op, in) == [IdleReq EXCEPT !.n = started + 1, !.op = op, !.in = in]

\* What the step before this one sent, when both answer a view of the same
\* identifier with a document: that request's input and its document.
Previous(q) ==
    IF /\ q.op \in {"view", "get-portfolio"}
       /\ last.op = q.op
       /\ q.status = 200
       /\ last.status = 200
       /\ last.id = q.id
    THEN [none |-> FALSE, in |-> last.in, page |-> last.page]
    ELSE NoInput

\* The request in slot r moves on to q: it stays in its slot while it
\* awaits, and leaves it when it has been answered; last holds the request
\* this step answered, if it answered one.
Step_Shared(r, q) ==
    /\ req' = [k \in DOMAIN req |-> IF q.pc = "done" THEN IdleReq ELSE q]
    /\ last' = IF q.pc = "done" THEN [q EXCEPT !.prev = Previous(q)] ELSE IdleReq

Step(r, q) ==
    /\ req' = [req EXCEPT ![r] = IF q.pc = "done" THEN IdleReq ELSE q]
    /\ last' = IF q.pc = "done" THEN [q EXCEPT !.prev = Previous(q)] ELSE IdleReq

\* The request answers with an error status and message.
Fail(q, status, error, thrown) ==
    [q EXCEPT !.pc = "done", !.status = status, !.error = error, !.thrown = thrown]

\* uuidv4(): a version-4 UUID, 122 random bits; modelled as an identifier
\* never returned before.
uuidv4Candidates == Ids \ issued

\* portfolios[id] = rec
PutPortfolio_Replace(store, id, rec) == [k \in {id} |-> rec]

PutPortfolio_FixedKey(store, id, rec) ==
    [k \in (DOMAIN store) \cup {1} |-> IF k = 1 THEN rec ELSE store[k]]

PutPortfolio(store, id, rec) ==
    [k \in (DOMAIN store) \cup {id} |-> IF k = id THEN rec ELSE store[k]]

\* ---------------------------------------------------- social normalization
\* if (d.personalInfo.linkedin) d.personalInfo.linkedin = convertUsernameToUrl('linkedin', ...);
\* if (d.personalInfo.github)   d.personalInfo.github   = convertUsernameToUrl('github', ...);
\* The result is [ok, data]; ok is FALSE when a TypeError is thrown (d or
\* d.personalInfo is null or undefined, or convertUsernameToUrl throws).
NormalizeField(platform, v) ==
    IF Truthy(v) THEN convertUsernameToUrl(platform, v) ELSE [ok |-> TRUE, v |-> v]

NormalizeSocial(d) ==
    IF d.t # "object" THEN [ok |-> FALSE, data |-> d]
    ELSE IF d.personalInfo.t # "object" THEN [ok |-> FALSE, data |-> d]
    ELSE LET l == NormalizeField("linkedin", d.personalInfo.linkedin)
             g == NormalizeField("github", d.personalInfo.github)
         IN IF ~l.ok \/ ~g.ok THEN [ok |-> FALSE, data |-> d]
            ELSE [ok |-> TRUE,
                  data |-> [d EXCEPT !.personalInfo.linkedin = l.v,
                                     !.personalInfo.github = g.v]]

\* `https://placehold.co/150x150/222/fff?text=${name ? name.charAt(0) : 'P'}`
\* for a personalInfo object whose name is a string, null or undefined.
PlaceholderPhoto(personalInfo) ==
    Str(<<"https://", "placehold.co/150x150/222/fff?text=",
          IF Truthy(personalInfo.name) THEN Head(personalInfo.name.s) ELSE "P">>)

GenericResumeError ==
    <<"An unexpected error occurred while generating the portfolio. Please try again.">>
GenericManualError ==
    <<"An unexpected error occurred while creating the portfolio. Please try again.">>
InvalidJsonMessage == <<"AI model returned an invalid JSON format.">>

\* ------------------------------------------------- external model outcomes
\* What model.generateContent(...) / response.text() deliver: a rejection
\* with the message of its error, or a reply text.
ModelErrors == {<<"fetch failed">>, <<"429 Too Many Requests">>}
Threw(message) == [throws |-> TRUE, text |-> <<>>, message |-> message]
Replied(text) == [throws |-> FALSE, text |-> text, message |-> <<>>]

ExtractOutcomes == {Threw(m) : m \in ModelErrors} \cup {Replied(x) : x \in ReplyTexts}
ClassifyOutcomes == {Threw(m) : m \in ModelErrors} \cup {Replied(x) : x \in LabelTexts}

\* How the extraction ended, for the record: the call threw, the reply did
\* not parse, it parsed to null, or it parsed to an object.
ExtractKind(outcome, jsonText) ==
    IF outcome.throws THEN "throw"
    ELSE IF JSONParse(jsonText) = "error" THEN "unparsable"
    ELSE JSONParse(jsonText)

\* ----------------------------------------------- server.js parseResumeWithAI
\* The try block of parseResumeWithAI on the model's outcome; obj is the
\* object the reply text denotes when it is a well-formed object.  The
\* result is [ok, value, thrown].  The catch block evaluates
\* response.text() before its throw statement, and `response` is a const of
\* the try block, out of scope there: the catch block itself throws
\* ReferenceError and the throw statement after it is not reached.
parseResumeWithAI_Swallow(outcome, obj) ==
    IF ~outcome.throws /\ JSONParse(ExtractJsonText(outcome.text)) = "object"
    THEN [ok |-> TRUE, value |-> obj, thrown |-> <<>>]
    ELSE [ok |-> TRUE, value |-> Profile(JNull, Undef, Undef, Undef), thrown |-> <<>>]

parseResumeWithAI(outcome, obj) ==
    IF outcome.throws
    THEN [ok |-> FALSE, value |-> Undef, thrown |-> <<"response is not defined">>]
    ELSE CASE JSONParse(ExtractJsonText(outcome.text)) = "object" ->
                [ok |-> TRUE, value |-> obj, thrown |-> <<>>]
           [] JSONParse(ExtractJsonText(outcome.text)) = "null" ->
                [ok |-> TRUE, value |-> JNull, thrown |-> <<>>]
           [] OTHER ->
                [ok |-> FALSE, value |-> Undef, thrown |-> <<"response is not defined">>]

\* server.js classifyProfessionAndSelectTheme, from the model's outcome on:
\* the try block returns themes[profession] || themes['Default'], the catch
\* block returns themes['Default'].
classifyProfessionAndSelectTheme(outcome) ==
    IF outcome.throws THEN themes[KeyDefault]
    ELSE ThemeLookup(themes, Trim(outcome.text))

\* ------------------------------------------------------- server.js: health
\* GET /health: res.status(200).json({ status: 'OK', message: ... }).
Health(r) ==
    /\ deployment = "express"
    /\ Free(r)
    /\ Step(r, [NewReq("health", NoInput) EXCEPT !.pc = "done", !.status = 200,
                                                !.error = <<"OK">>])
    /\ started' = started + 1
    /\ UNCHANGED <<deployment, portfolios, table, issued, succeeded>>

\* ------------------------------------------- server.js: generate-from-resume
\* POST /api/generate-from-resume up to its first await (pdfParse).
StartResume(r) ==
    /\ deployment = "express"
    /\ Free(r)
    /\ \E hasResume \in BOOLEAN, hasPhoto \in BOOLEAN :
         LET q == [NewReq("resume", [hasResume |-> hasResume, hasPhoto |-> hasPhoto])
                     EXCEPT !.branch = "resume"]
         IN Step(r,
                IF ~hasResume
                THEN Fail(q, 400, <<"Resume file (PDF) is required.">>, <<>>)
                ELSE [q EXCEPT !.pc = "pdf"])
    /\ started' = started + 1
    /\ UNCHANGED <<deployment, portfolios, table, issued, succeeded>>

\* The catch block of the resume handler.
ResumeCatch(q, thrown) ==
    IF thrown = <<"bad XRef entry">>
    THEN Fail(q, 400, <<"The PDF file appears to be corrupted or invalid. Please try uploading a different PDF file.">>, thrown)
    ELSE Fail(q, 500, GenericResumeError, thrown)

\* Whether the handler stops on the extracted text: !resumeText ||
\* resumeText.trim().length === 0
EmptyResumeText(text) == ~Truthy(text) \/ Trim(text.s) = <<>>

\* pdfParse settles; on text the handler calls parseResumeWithAI, which
\* issues the extraction call and awaits it.
PdfReturnResume(r) ==
    /\ deployment = "express"
    /\ req[r].pc = "pdf"
    /\ \/ \E thrown \in {<<"bad XRef entry">>, <<"Invalid PDF structure">>} :
            Step(r, ResumeCatch(req[r], thrown))
       \/ \E text \in {Str(x) : x \in ResumeTexts} :
            Step(r,
                IF EmptyResumeText(text)
                THEN Fail([req[r] EXCEPT !.text = text], 400,
                          <<"Could not extract text from the PDF. The file may be corrupted or scanned as an image.">>,
                          <<>>)
                ELSE [req[r] EXCEPT !.text = text, !.pc = "extract",
                               !.nExtract = @ + 1])
    /\ UNCHANGED <<deployment, portfolios, table, issued, started, succeeded>>

\* The extraction call settles inside parseResumeWithAI; on an object the
\* handler calls classifyProfessionAndSelectTheme, which reads
\* parsedData.skills (TypeError on null) and issues the classification call.
ExtractReturnResume(r) ==
    /\ deployment = "express"
    /\ req[r].pc = "extract"
    /\ \E outcome \in ExtractOutcomes, obj \in ExtractedObjects :
         LET res == parseResumeWithAI(outcome, obj)
             q == [req[r] EXCEPT
                     !.extract = ExtractKind(outcome, ExtractJsonText(outcome.text))]
         IN Step(r,
                IF ~res.ok THEN ResumeCatch(q, res.thrown)
                ELSE IF res.value.t # "object"
                THEN ResumeCatch([q EXCEPT !.data = res.value],
                                 <<"Cannot read properties of null (reading 'skills')">>)
                ELSE [q EXCEPT !.data = res.value, !.pc = "classify",
                               !.nClassify = @ + 1])
    /\ UNCHANGED <<deployment, portfolios, table, issued, started, succeeded>>

\* The record the resume handler stores.
PortfolioRecord(data, theme, pic) ==
    [t |-> "object", data |-> data, theme |-> theme, profilePictureUrl |-> pic,
     createdAt |-> TRUE, updatedAt |-> FALSE]

\* The classification call settles; the handler normalizes the social
\* fields, builds the photo URL, draws an identifier, stores the record and
\* answers 200.
ClassifyReturnResume(r) ==
    /\ deployment = "express"
    /\ req[r].pc = "classify"
    /\ uuidv4Candidates # {}
    /\ \E outcome \in ClassifyOutcomes, id \in uuidv4Candidates :
         LET theme == classifyProfessionAndSelectTheme(outcome)
             q == [req[r] EXCEPT
                     !.classify = IF outcome.throws THEN "throw" ELSE "reply",
                     !.label = Trim(outcome.text),
                     !.theme = theme]
             n == NormalizeSocial(q.data)
             pic == IF q.in.hasPhoto THEN PhotoDataUrl
                    ELSE PlaceholderPhoto(n.data.personalInfo)
         IN IF ~n.ok
            THEN /\ Step(r,
                        ResumeCatch(q, <<"Cannot read properties of null">>))
                 /\ UNCHANGED <<portfolios, issued, succeeded>>
            ELSE /\ portfolios' = PutPortfolio(portfolios, id,
                                               PortfolioRecord(n.data, theme, pic))
                 /\ issued' = issued \cup {id}
                 /\ succeeded' = succeeded + 1
                 /\ Step(r,
                        [q EXCEPT !.pc = "done", !.status = 200, !.data = n.data,
                                  !.pic = pic, !.id = id, !.nPersist = @ + 1])
    /\ UNCHANGED <<deployment, table, started>>

\* ------------------------------------- server.js: create-manual-portfolio
\* POST /api/create-manual-portfolio: synchronous from the body to the
\* response; every throw lands in its catch block (500).
CreateManual(r) ==
    /\ deployment = "express"
    /\ Free(r)
    /\ uuidv4Candidates # {}
    /\ \E portfolioData \in ClientPortfolioData, theme \in ClientThemes,
          hasPhoto \in BOOLEAN, id \in uuidv4Candidates :
         LET q == [NewReq("manual", [portfolioData |-> portfolioData, theme |-> theme,
                                     hasPhoto |-> hasPhoto])
                     EXCEPT !.branch = "manual"]
             n == NormalizeSocial(portfolioData)
             pic == IF hasPhoto THEN PhotoDataUrl
                    ELSE PlaceholderPhoto(n.data.personalInfo)
         IN IF ~n.ok
            THEN /\ Step(r,
                        Fail(q, 500, GenericManualError,
                             <<"Cannot read properties of undefined">>))
                 /\ UNCHANGED <<portfolios, issued, succeeded>>
            ELSE /\ portfolios' = PutPortfolio(portfolios, id,
                                               PortfolioRecord(n.data, theme, pic))
                 /\ issued' = issued \cup {id}
                 /\ succeeded' = succeeded + 1
                 /\ Step(r,
                        [q EXCEPT !.pc = "done", !.status = 200, !.data = n.data,
                                  !.theme = theme, !.pic = pic, !.id = id,
                                  !.nPersist = @ + 1])
    /\ started' = started + 1
    /\ UNCHANGED <<deployment, table>>

\* ----------------------------------------------- server.js: update-portfolio
\* portfolios[id] on the store, an object literal: the record stored under
\* id, the member every object inherits, or undefined.
StoreGet(store, id) ==
    IF id \in DOMAIN store THEN store[id]
    ELSE IF id \in PrototypeIds THEN InheritedMember(<<"constructor">>)
    ELSE Undef

\* { ...portfolios[id], data, theme, profilePictureUrl, updatedAt: new Date() }:
\* createdAt is copied from a stored record; the inherited member has no own
\* enumerable property to copy.
UpdatedRecord(store, id, data, theme, profilePictureUrl) ==
    [t |-> "object", data |-> data, theme |-> theme,
     profilePictureUrl |-> profilePictureUrl,
     createdAt |-> IF id \in DOMAIN store THEN store[id].createdAt ELSE FALSE,
     updatedAt |-> TRUE]

\* POST /api/update-portfolio/:id, a synchronous handler without try/catch:
\* an exception leaves it and Express answers 500.
UpdatePortfolio(r) ==
    /\ deployment = "express"
    /\ Free(r)
    /\ \E id \in ClientIds, portfolioData \in ClientPortfolioData, theme \in ClientThemes,
          profilePictureUrl \in {Undef, PhotoDataUrl} :
         LET q == NewReq("update", [id |-> id, portfolioData |-> portfolioData,
                                    theme |-> theme,
                                    profilePictureUrl |-> profilePictureUrl])
             n == NormalizeSocial(portfolioData)
         IN IF ~Truthy(StoreGet(portfolios, id))
            THEN /\ Step(r,
                        Fail(q, 404, <<"Portfolio not found">>, <<>>))
                 /\ UNCHANGED portfolios
            ELSE IF ~n.ok
            THEN /\ Step(r,
                        Fail(q, 500, <<"Internal Server Error">>,
                             <<"Cannot read properties of undefined">>))
                 /\ UNCHANGED portfolios
            ELSE /\ portfolios' = PutPortfolio(portfolios, id,
                        UpdatedRecord(portfolios, id, n.data, theme, profilePictureUrl))
                 /\ Step(r,
                        [q EXCEPT !.pc = "done", !.status = 200, !.data = n.data,
                                  !.theme = theme, !.pic = profilePictureUrl,
                                  !.id = id])
    /\ started' = started + 1
    /\ UNCHANGED <<deployment, table, issued, succeeded>>

\* ------------------------------------------------------ server.js: the views
\* /^data:(.+);base64,(.+)$/ on the picture: "data:", a MIME type,
\* ";base64," and the encoded bytes.
DataUrlMatch(s) ==
    /\ Len(s) = 4
    /\ s[1] = "data:"
    /\ s[3] = ";base64,"

\* GET /api/portfolio-image/:id, a synchronous handler.  The answer's page
\* holds the Content-Type and the bytes sent, or the redirect's target.
PortfolioImage(r) ==
    /\ deployment = "express"
    /\ Free(r)
    /\ \E id \in ClientIds :
         LET q == NewReq("image", [id |-> id])
             portfolio == StoreGet(portfolios, id)
             profilePictureUrl == Get(portfolio, "profilePictureUrl")
         IN IF ~Truthy(portfolio)
            THEN Step(r, Fail(q, 404, <<"Portfolio not found">>, <<>>))
            ELSE IF Truthy(profilePictureUrl) /\ profilePictureUrl.t # "string"
            THEN Step(r, Fail(q, 500, <<"Internal Server Error">>,
                              <<"profilePictureUrl.startsWith is not a function">>))
            ELSE IF Truthy(profilePictureUrl) /\ StartsWith(profilePictureUrl.s, "data:")
                    /\ DataUrlMatch(profilePictureUrl.s)
            THEN Step(r, [q EXCEPT !.pc = "done", !.status = 200, !.id = id,
                                   !.page = [contentType |-> profilePictureUrl.s[2],
                                             bytes |-> profilePictureUrl.s[4]]])
            ELSE Step(r, [q EXCEPT !.pc = "done", !.status = 302, !.id = id,
                                   !.page = [location |->
                                       <<"https://",
                                         "via.placeholder.com/1200x627/4F46E5/FFFFFF?text=Portfolio">>]])
    /\ started' = started + 1
    /\ UNCHANGED <<deployment, portfolios, table, issued, succeeded>>

\* `${req.protocol}://${req.get('host')}` of a request: the server is
\* reached under its loopback name and under its LAN address.
Origins == {<<"http://", "localhost:3000">>, <<"http://", "192.168.1.20:3000">>}

\* const portfolioUrl = `${req.protocol}://${req.get('host')}/portfolio/${id}`;
PortfolioUrl_Counted(origin, id) ==
    [origin |-> origin, path |-> "/portfolio/", id |-> id, visit |-> started]

PortfolioUrl(origin, id) == [origin |-> origin, path |-> "/portfolio/", id |-> id]

\* GET /portfolio/:id, a synchronous handler: the identifier's shape is
\* tested first, then the store is read, then the record is rendered inside
\* try/catch.
ViewPortfolio(r) ==
    /\ deployment = "express"
    /\ Free(r)
    /\ \E id \in ClientIds, origin \in Origins :
         LET q == NewReq("view", [id |-> id, origin |-> origin])
         IN IF ~uuidRegexTest(id)
            THEN Step(r, Fail(q, 400, <<"Invalid Portfolio ID">>, <<>>))
            ELSE IF ~Truthy(StoreGet(portfolios, id))
            THEN Step(r, Fail(q, 404, <<"Portfolio Not Found">>, <<>>))
            ELSE IF RenderExpressThrows(portfolios[id])
            THEN Step(r, Fail(q, 500, <<"Server Error">>, <<"TypeError">>))
            ELSE Step(r, [q EXCEPT !.pc = "done", !.status = 200, !.id = id,
                                   !.page = RenderExpress(portfolios[id],
                                                OgImageUrl(portfolios[id], origin, id),
                                                PortfolioUrl(origin, id))])
    /\ started' = started + 1
    /\ UNCHANGED <<deployment, portfolios, table, issued, succeeded>>

\* --------------------------------------------------- hosted variants: events
\* An event as the platform delivers it carries the HTTP method in
\* httpMethod; a caller can also pass it in method.  "undefined" marks the
\* absent field.
Methods == {"GET", "POST", "DELETE"}
Events ==
    {[method |-> "undefined", httpMethod |-> m] : m \in Methods}
    \cup {[method |-> m, httpMethod |-> "undefined"] : m \in Methods}

\* resumeText values a JSON body can carry.
BodyResumeTexts == {Undef} \cup {Str(x) : x \in ResumeTexts}

\* A body with none of the fields the handler reads (type is neither 'manual'
\* nor 'ai').
NoBody ==
    [type |-> "other", portfolioData |-> Undef, theme |-> Undef,
     profilePictureUrl |-> Undef, resumeText |-> Undef]

\* JSON bodies of the unnamed variant: {type, portfolioData, theme,
\* profilePictureUrl, resumeText}.
NetlifyBodies ==
    {[type |-> "manual", portfolioData |-> d, theme |-> th,
      profilePictureUrl |-> Undef, resumeText |-> Undef] :
        d \in {Profile(PersonalInfo(NameAda, BareLinkedin, JNull), Undef, Undef, Undef)},
        th \in ClientThemes}
    \cup {[type |-> "ai", portfolioData |-> Undef, theme |-> Undef,
           profilePictureUrl |-> pic, resumeText |-> x] :
            pic \in {Undef, PhotoDataUrl}, x \in BodyResumeTexts}
    \cup {NoBody}

\* Requests to the unnamed variant.  The body is read only on a POST, and
\* only a body that parses has fields.
NetlifyInputs ==
    {in \in [event : Events, bodyParses : BOOLEAN, body : NetlifyBodies] :
        /\ in.event.method # "POST" => in.bodyParses
        /\ (in.event.method # "POST" \/ ~in.bodyParses) => in.body = NoBody}

\* ------------------------------------- unnamed variant: parseResumeWithAI
\* As in server.js, but the catch block only logs the caught error and
\* throws the dedicated Error.
parseResumeWithAINetlify_Swallow(outcome, obj) ==
    [ok |-> TRUE, value |-> obj, thrown |-> <<>>]

parseResumeWithAINetlify(outcome, obj) ==
    IF outcome.throws
    THEN [ok |-> FALSE, value |-> Undef, thrown |-> InvalidJsonMessage]
    ELSE CASE JSONParse(ExtractJsonText(outcome.text)) = "object" ->
                [ok |-> TRUE, value |-> obj, thrown |-> <<>>]
           [] JSONParse(ExtractJsonText(outcome.text)) = "null" ->
                [ok |-> TRUE, value |-> JNull, thrown |-> <<>>]
           [] OTHER ->
                [ok |-> FALSE, value |-> Undef, thrown |-> InvalidJsonMessage]

\* The unnamed variant's classifyProfessionAndSelectTheme from the model's
\* outcome on.  `themes` is a const of the try block: the catch block's
\* `return themes['Default']` throws ReferenceError.  Result [ok, theme, thrown].
classifyProfessionAndSelectThemeNetlify(outcome) ==
    IF outcome.throws
    THEN [ok |-> FALSE, theme |-> Undef, thrown |-> <<"themes is not defined">>]
    ELSE [ok |-> TRUE, theme |-> ThemeLookup(themes, Trim(outcome.text)),
          thrown |-> <<>>]

\* The catch block of the unnamed variant's handler.
NetlifyCatch(q, thrown) == Fail(q, 500, <<"Internal server error">>, thrown)

\* A row of the hosted table.
Row(share_id, portfolio_data, profile_picture_url, selected_theme) ==
    [share_id |-> share_id, portfolio_data |-> portfolio_data,
     profile_picture_url |-> profile_picture_url, selected_theme |-> selected_theme]

\* The status the handler answers with once the insert has settled.
InsertStatus_IgnoreError(error) == 200
InsertStatus(error) == IF error THEN 500 ELSE 200

\* --------------------------------------------- unnamed variant: the handler
\* exports.handler up to its first await: the method checks on event.method,
\* JSON.parse(event.body), then the 'manual' branch up to the insert, the
\* 'ai' branch up to the extraction call, or 400.
StartNetlify(r) ==
    /\ deployment = "netlify"
    /\ Free(r)
    /\ \E in \in NetlifyInputs :
         LET event == in.event
             bodyParses == in.bodyParses
             body == in.body
             q == NewReq("netlify", in)
         IN IF event.method = "GET"
            THEN /\ Step(r,
                        [q EXCEPT !.pc = "done", !.status = 200, !.error = <<"OK">>])
                 /\ UNCHANGED issued
            ELSE IF event.method # "POST"
            THEN /\ Step(r,
                        Fail(q, 405, <<"Method not allowed">>, <<>>))
                 /\ UNCHANGED issued
            ELSE IF ~bodyParses
            THEN /\ Step(r,
                        NetlifyCatch(q, <<"Unexpected token in JSON">>))
                 /\ UNCHANGED issued
            ELSE IF body.type = "manual"
            THEN /\ uuidv4Candidates # {}
                 /\ \E id \in uuidv4Candidates :
                      /\ issued' = issued \cup {id}
                      /\ Step(r,
                            IF body.theme.t = "undefined"
                            THEN NetlifyCatch([q EXCEPT !.id = id, !.branch = "manual"],
                                  <<"Cannot read properties of undefined (reading 'name')">>)
                            ELSE [q EXCEPT !.pc = "insert", !.id = id,
                                      !.branch = "manual",
                                      !.data = body.portfolioData,
                                      !.theme = body.theme,
                                      !.pic = body.profilePictureUrl,
                                      !.row = Row(id, body.portfolioData,
                                                  body.profilePictureUrl,
                                                  body.theme.name)])
            ELSE IF body.type = "ai"
            THEN /\ Step(r,
                        [q EXCEPT !.pc = "extract", !.branch = "resume",
                                  !.text = OrElse(body.resumeText, Str(<<>>)),
                                  !.nExtract = @ + 1])
                 /\ UNCHANGED issued
            ELSE /\ Step(r,
                        Fail(q, 400, <<"Invalid request type">>, <<>>))
                 /\ UNCHANGED issued
    /\ started' = started + 1
    /\ UNCHANGED <<deployment, portfolios, table, succeeded>>

\* The extraction call settles; on an object the classification call is
\* issued.
ExtractReturnNetlify(r) ==
    /\ deployment = "netlify"
    /\ req[r].pc = "extract"
    /\ \E outcome \in ExtractOutcomes, obj \in ExtractedObjects :
         LET res == parseResumeWithAINetlify(outcome, obj)
             q == [req[r] EXCEPT
                     !.extract = ExtractKind(outcome, ExtractJsonText(outcome.text))]
         IN Step(r,
                IF ~res.ok THEN NetlifyCatch(q, res.thrown)
                ELSE IF res.value.t # "object"
                THEN NetlifyCatch([q EXCEPT !.data = res.value],
                                  <<"Cannot read properties of null (reading 'skills')">>)
                ELSE [q EXCEPT !.data = res.value, !.pc = "classify",
                               !.nClassify = @ + 1])
    /\ UNCHANGED <<deployment, portfolios, table, issued, started, succeeded>>

\* The classification call settles; the handler draws an identifier and
\* issues the insert.  The social fields are stored as extracted.
ClassifyReturnNetlify(r) ==
    /\ deployment = "netlify"
    /\ req[r].pc = "classify"
    /\ uuidv4Candidates # {}
    /\ \E outcome \in ClassifyOutcomes, id \in uuidv4Candidates :
         LET res == classifyProfessionAndSelectThemeNetlify(outcome)
             q == [req[r] EXCEPT
                     !.classify = IF outcome.throws THEN "throw" ELSE "reply",
                     !.label = Trim(outcome.text)]
             pic == OrElse(q.in.body.profilePictureUrl, Str(<<>>))
         IN IF ~res.ok
            THEN /\ Step(r, NetlifyCatch(q, res.thrown))
                 /\ UNCHANGED issued
            ELSE /\ issued' = issued \cup {id}
                 /\ Step(r,
                        [q EXCEPT !.pc = "insert", !.id = id, !.theme = res.theme,
                                  !.pic = pic,
                                  !.row = Row(id, q.data, pic, res.theme.name)])
    /\ UNCHANGED <<deployment, portfolios, table, started, succeeded>>

\* The insert settles: with an error nothing is stored and the handler
\* answers 500; otherwise the row is in the table and it answers 200.
InsertReturnNetlify(r) ==
    /\ deployment = "netlify"
    /\ req[r].pc = "insert"
    /\ \E error \in BOOLEAN :
         /\ table' = IF error THEN table ELSE Append(table, req[r].row)
         /\ succeeded' = IF InsertStatus(error) = 200 THEN succeeded + 1 ELSE succeeded
         /\ Step(r,
                IF InsertStatus(error) = 200
                THEN [req[r] EXCEPT !.pc = "done", !.status = 200,
                               !.nPersist = IF error THEN @ ELSE @ + 1]
                ELSE Fail(req[r], 500, <<"Failed to save portfolio">>, <<>>))
    /\ UNCHANGED <<deployment, portfolios, issued, started>>

\* ------------------------------------------- generate-portfolio.js: inputs
\* manualData values a JSON body can carry: absent, a primitive, an object.
ManualDatas ==
    { Undef, Num,
      Profile(Undef, BareLinkedin, JNull, Undef),
      Profile(Undef, JNull, UrlGithub, Str(KeySoftwareDeveloper)) }

\* JSON bodies of generate-portfolio.js: {resumeText, manualData}.
NoBodyGP == [resumeText |-> Undef, manualData |-> Undef]
BodiesGP ==
    {[resumeText |-> x, manualData |-> m] : x \in BodyResumeTexts, m \in ManualDatas}

\* Requests to generate-portfolio.js.  A multipart body is handed to
\* pdfParse; a JSON body is read only on a POST, and only a body that parses
\* has fields.
InputsGP ==
    {in \in [event : Events, multipart : BOOLEAN, bodyParses : BOOLEAN,
             body : BodiesGP] :
        /\ in.event.httpMethod # "POST" => ~in.multipart /\ in.bodyParses
        /\ in.multipart => in.bodyParses
        /\ (in.event.httpMethod # "POST" \/ in.multipart \/ ~in.bodyParses)
              => in.body = NoBodyGP}

\* The catch block of the handler: the message of the caught error goes
\* into the response body.
CatchGP(q, thrown) ==
    Fail(q, 500, <<"An internal server error occurred: ">> \o thrown, thrown)

\* generateFromManual(manualData): manualData.profession = 'Default'.  The
\* assignment throws TypeError on undefined or null, is ignored on a
\* primitive (the module is not in strict mode) and sets the property on an
\* object.  Result [ok, data].
generateFromManual_KeepProfession(manualData) ==
    IF manualData.t \in {"undefined", "null"} THEN [ok |-> FALSE, data |-> manualData]
    ELSE [ok |-> TRUE, data |-> manualData]

generateFromManual(manualData) ==
    IF manualData.t \in {"undefined", "null"} THEN [ok |-> FALSE, data |-> manualData]
    ELSE IF manualData.t # "object" THEN [ok |-> TRUE, data |-> manualData]
    ELSE [ok |-> TRUE, data |-> [manualData EXCEPT !.profession = Str(KeyDefault)]]

\* portfolioData.profession as a property key: the string itself, or the
\* key "undefined" when the property is absent (or read off a primitive).
ProfessionKey(portfolioData) ==
    IF portfolioData.t = "object" /\ portfolioData.profession.t = "string"
    THEN portfolioData.profession.s
    ELSE <<"undefined">>

\* themes[portfolioData.profession] || themes['Default']
SelectThemeGP(portfolioData) == ThemeLookup(themesGP, ProfessionKey(portfolioData))

\* const portfolioData = resumeText ? await generateFromResume(resumeText)
\*                                  : await generateFromManual(manualData);
\* up to the next await: the extraction call, or (manual) the insert.
DispatchGP(q, resumeText, manualData) ==
    IF Truthy(resumeText)
    THEN [q EXCEPT !.pc = "extract", !.branch = "resume", !.text = resumeText,
                   !.nExtract = @ + 1]
    ELSE LET m == generateFromManual(manualData)
         IN IF ~m.ok
            THEN CatchGP([q EXCEPT !.branch = "manual", !.text = resumeText],
                         <<"Cannot set properties of undefined (setting 'profession')">>)
            ELSE [q EXCEPT !.pc = "insert", !.branch = "manual",
                           !.text = resumeText, !.data = m.data,
                           !.theme = SelectThemeGP(m.data),
                           !.row = Row(0, m.data, Undef, SelectThemeGP(m.data))]

\* ------------------------------------------ generate-portfolio.js: handler
\* exports.handler up to its first await: the method checks on
\* event.httpMethod, then pdfParse (multipart) or JSON.parse and dispatch.
StartGP(r) ==
    /\ deployment = "gp"
    /\ Free(r)
    /\ \E in \in InputsGP :
         LET q == NewReq("gp", in)
         IN Step(r,
                IF in.event.httpMethod = "GET"
                THEN [q EXCEPT !.pc = "done", !.status = 200, !.error = <<"OK">>]
                ELSE IF in.event.httpMethod # "POST"
                THEN Fail(q, 405, <<"Method not allowed">>, <<>>)
                ELSE IF in.multipart THEN [q EXCEPT !.pc = "pdf"]
                ELSE IF ~in.bodyParses THEN CatchGP(q, <<"Unexpected token in JSON">>)
                ELSE DispatchGP(q, in.body.resumeText, in.body.manualData))
    /\ started' = started + 1
    /\ UNCHANGED <<deployment, portfolios, table, issued, succeeded>>

\* pdfParse settles: body = { resumeText: data.text }, so manualData is
\* undefined.
PdfReturnGP(r) ==
    /\ deployment = "gp"
    /\ req[r].pc = "pdf"
    /\ \/ \E thrown \in {<<"bad XRef entry">>, <<"Invalid PDF structure">>} :
            Step(r, CatchGP(req[r], thrown))
       \/ \E text \in {Str(x) : x \in ResumeTexts} :
            Step(r, DispatchGP(req[r], text, Undef))
    /\ UNCHANGED <<deployment, portfolios, table, issued, started, succeeded>>

\* generateFromResume: the extraction call settles; JSON.parse of the
\* cleaned text; then the classification call is issued (also when the text
\* parsed to null).
ExtractReturnGP(r) ==
    /\ deployment = "gp"
    /\ req[r].pc = "extract"
    /\ \E outcome \in ExtractOutcomes, obj \in ExtractedObjectsGP :
         LET kind == ExtractKind(outcome, ExtractJsonTextGP(outcome.text))
             q == [req[r] EXCEPT !.extract = kind]
         IN Step(r,
                IF kind = "throw" THEN CatchGP(q, outcome.message)
                ELSE IF kind = "unparsable"
                THEN CatchGP(q, <<"Unexpected token in JSON">>)
                ELSE [q EXCEPT !.data = IF kind = "null" THEN JNull ELSE obj,
                               !.pc = "classify", !.nClassify = @ + 1])
    /\ UNCHANGED <<deployment, portfolios, table, issued, started, succeeded>>

\* generateFromResume: the classification call settles;
\* data.profession = text.trim() (TypeError on null); back in the handler the
\* theme is looked up and the insert is issued.  A rejection of the call is
\* not caught in generateFromResume.
ClassifyReturnGP(r) ==
    /\ deployment = "gp"
    /\ req[r].pc = "classify"
    /\ \E outcome \in ClassifyOutcomes :
         LET q == [req[r] EXCEPT
                     !.classify = IF outcome.throws THEN "throw" ELSE "reply",
                     !.label = Trim(outcome.text)]
             data == [q.data EXCEPT !.profession = Str(Trim(outcome.text))]
         IN Step(r,
                IF outcome.throws THEN CatchGP(q, outcome.message)
                ELSE IF q.data.t # "object"
                THEN CatchGP(q, <<"Cannot set properties of null (setting 'profession')">>)
                ELSE [q EXCEPT !.pc = "insert", !.data = data,
                               !.theme = SelectThemeGP(data),
                               !.row = Row(0, data, Undef, SelectThemeGP(data))])
    /\ UNCHANGED <<deployment, portfolios, table, issued, started, succeeded>>

\* The insert settles: an error is thrown to the catch block (500);
\* otherwise the row is in the table and the handler answers 200.
InsertReturnGP(r) ==
    /\ deployment = "gp"
    /\ req[r].pc = "insert"
    /\ \E error \in BOOLEAN :
         /\ table' = IF error THEN table ELSE Append(table, req[r].row)
         /\ succeeded' = IF InsertStatus(error) = 200 THEN succeeded + 1 ELSE succeeded
         /\ Step(r,
                IF InsertStatus(error) = 200
                THEN [req[r] EXCEPT !.pc = "done", !.status = 200,
                               !.nPersist = IF error THEN @ ELSE @ + 1]
                ELSE CatchGP(req[r], <<"Supabase error: ", "insert failed">>))
    /\ UNCHANGED <<deployment, portfolios, issued, started>>

\* ------------------------------------------------ get-portfolio.js: the view
\* What the platform delivers in event.queryStringParameters: null when the
\* URL has no query string, else the id parameter.
QueryStrings == {[none |-> TRUE]} \cup {[none |-> FALSE, id |-> id] : id \in ClientIds}

\* selected_theme of a row as a JavaScript value: the unnamed variant stores
\* theme.name, a string; generate-portfolio.js stores the theme object.
SelectedTheme(row) ==
    IF deployment = "gp" THEN row.selected_theme ELSE Str(row.selected_theme)

\* The row as generatePortfolioHTML receives it.
Selected(row) == [row EXCEPT !.selected_theme = SelectedTheme(row)]

\* .from('portfolios').select('*').eq('share_id', shareId).single(): the
\* rows whose share_id is shareId; single() reports an error unless there is
\* exactly one.
RowsWithShareId(shareId) == {i \in DOMAIN table : table[i].share_id = shareId}

\* exports.handler of get-portfolio.js.  The select is its one await; the
\* handler reads the table there and nowhere else, and writes nothing.
GetPortfolio(r) ==
    /\ deployment \in {"netlify", "gp"}
    /\ Free(r)
    /\ \E query \in QueryStrings, selectFails \in BOOLEAN :
         LET q == NewReq("get-portfolio", [query |-> query, selectFails |-> selectFails])
         IN IF query.none
            THEN Step(r, Fail(q, 500, <<"Server Error">>,
                              <<"Cannot read properties of null (reading 'id')">>))
            ELSE IF selectFails \/ Cardinality(RowsWithShareId(query.id)) # 1
            THEN Step(r, Fail(q, 404, <<"Portfolio Not Found">>, <<>>))
            ELSE LET data == Selected(table[CHOOSE i \in RowsWithShareId(query.id) : TRUE])
                 IN IF generatePortfolioHTMLThrows(data)
                    THEN Step(r, Fail(q, 500, <<"Server Error">>, <<"TypeError">>))
                    ELSE Step(r, [q EXCEPT !.pc = "done", !.status = 200,
                                           !.id = query.id,
                                           !.page = generatePortfolioHTML(data)])
    /\ started' = started + 1
    /\ UNCHANGED <<deployment, portfolios, table, issued, succeeded>>

Next ==
    \E r \in Slots :
        \/ Health(r)
        \/ StartResume(r)
        \/ PdfReturnResume(r)
        \/ ExtractReturnResume(r)
        \/ ClassifyReturnResume(r)
        \/ CreateManual(r)
        \/ UpdatePortfolio(r)
        \/ PortfolioImage(r)
        \/ ViewPortfolio(r)
        \/ StartNetlify(r)
        \/ ExtractReturnNetlify(r)
        \/ ClassifyReturnNetlify(r)
        \/ InsertReturnNetlify(r)
        \/ StartGP(r)
        \/ PdfReturnGP(r)
        \/ ExtractReturnGP(r)
        \/ ClassifyReturnGP(r)
        \/ InsertReturnGP(r)
        \/ GetPortfolio(r)

Spec == Init /\ [][Next]_vars

\* ------------------------------------------------ the views on a stored record
\* The store after one create request has persisted a profile under the
\* first identifier: in the in-memory store with the theme and picture of a
\* create or update body (an update stores body.profilePictureUrl as it
\* comes: absent, a string, or another JSON value), in the hosted table as
\* the unnamed variant writes the row (it stores theme.name, so the body's
\* theme is an object).
InitView ==
    /\ deployment \in {"express", "netlify"}
    /\ \E pic \in {PlaceholderPhoto(PersonalInfo(NameAda, Undef, Undef)), PhotoDataUrl,
                   Undef, Num} :
         IF deployment = "express"
         THEN /\ \E data \in ViewProfilesExpress, theme \in ClientThemes :
                    portfolios = PutPortfolio(<<>>, 1, PortfolioRecord(data, theme, pic))
              /\ table = <<>>
         ELSE /\ \E data \in ViewProfilesHosted, theme \in ClientThemes \ {Undef} :
                    table = <<Row(1, data, pic, theme.name)>>
              /\ portfolios = <<>>
    /\ req = [r \in Slots |-> IdleReq]
    /\ last = IdleReq
    /\ issued = {1}
    /\ started = 0
    /\ succeeded = 1

NextView ==
    \E r \in Slots :
        \/ ViewPortfolio(r)
        \/ PortfolioImage(r)
        \/ GetPortfolio(r)

SpecView == InitView /\ [][NextView]_vars

\* ------------------------------------------- interleaved resume requests
\* server.js serving resume-generate requests only, several in flight at a
\* time: between two await points of one request (pdfParse, the extraction
\* call, the classification call) any other request can take its steps.
ConcurrentSlots == 1..MaxConcurrent

InitConcurrent ==
    /\ deployment = "express"
    /\ portfolios = <<>>
    /\ table = <<>>
    /\ req = [r \in ConcurrentSlots |-> IdleReq]
    /\ last = IdleReq
    /\ issued = {}
    /\ started = 0
    /\ succeeded = 0

NextConcurrent ==
    \E r \in ConcurrentSlots :
        \/ StartResume(r)
        \/ PdfReturnResume(r)
        \/ ExtractReturnResume(r)
        \/ ClassifyReturnResume(r)

SpecConcurrent == InitConcurrent /\ [][NextConcurrent]_vars

\* ------------------------------------------------------- the pure functions
\* Platforms and values convertUsernameToUrl is called with: absent and
\* empty values, bare usernames, URLs in both schemes, a URL in capitals, and
\* truthy values that are no strings (JSON numbers and objects).
Platforms == {"linkedin", "github", "twitter"}
UsernameValues ==
    { Undef, JNull, Str(<<>>), BareLinkedin, BareGithub, UrlGithub,
      Str(<<"http://", "linkedin.com/in/", "johndoe">>),
      Str(<<"HTTPS://", "github.com/", "octocat">>),
      Str(<<" ", "https://", "github.com/", "octocat">>),
      Num, EmptyObject }

\* Replies that hold one well-formed object, in their parts (what precedes
\* the object, the object, what follows): in prose with or without braces,
\* or in a code fence whose opening line ends with a line feed, with
\* carriage return and line feed, or not at all.
ProseReplies ==
    {[kind |-> "prose", before |-> b, object |-> o, after |-> a] :
        b \in {<<>>, <<"prose", "\n">>, <<"prose", "{", "prose", "}", "prose">>,
               <<"prose", "}", " ">>},
        o \in {<<"{", "kv", "}">>, <<"{", "kv", "{", "kv", "}", "}">>},
        a \in {<<>>, <<"\n", "prose">>, <<" ", "prose", "{", "prose", "}">>,
               <<"prose", "{">>}}
FencedReplies ==
    {[kind |-> "fenced", before |-> b, object |-> o, after |-> a] :
        b \in {<<"<fence-json>", "\n">>, <<"<fence-json>", "\r", "\n">>,
               <<"<fence-json>", " ">>, <<"<fence-json>">>, <<"<fence>", "\n">>},
        o \in {<<"{", "kv", "}">>, <<"{", "kv", "{", "kv", "}", "}">>},
        a \in {<<"\n", "<fence>">>, <<"\r", "\n", "<fence>", "\n">>, <<"<fence>">>}}
ReplyText(reply) == reply.before \o reply.object \o reply.after

\* What the variant's reply parsing yields: the text handed to JSON.parse
\* (without insignificant whitespace) and whether it parses to an object.
ParseReply(text) ==
    LET jsonText == IF deployment = "gp" THEN ExtractJsonTextGP(text)
                    ELSE ExtractJsonText(text)
    IN [kind |-> JSONParse(jsonText), text |-> NoWS(jsonText)]

InitPure ==
    /\ deployment \in {"express", "netlify", "gp"}
    /\ portfolios = <<>>
    /\ table = <<>>
    /\ req = [r \in Slots |-> IdleReq]
    /\ last = IdleReq
    /\ issued = {}
    /\ started = 0
    /\ succeeded = 0

\* A call of convertUsernameToUrl (server.js); last holds the arguments and
\* the result.
CallConvertUsernameToUrl ==
    /\ deployment = "express"
    /\ \E platform \in Platforms, username \in UsernameValues :
         last' = [IdleReq EXCEPT !.op = "convertUsernameToUrl",
                                 !.in = [platform |-> platform, username |-> username],
                                 !.page = convertUsernameToUrl(platform, username)]
    /\ UNCHANGED <<deployment, portfolios, table, req, issued, started, succeeded>>

\* The reply parsing of parseResumeWithAI (server.js, unnamed variant) or of
\* generateFromResume (generate-portfolio.js) on a model reply.
CallParseReply ==
    /\ \E reply \in ProseReplies \cup FencedReplies :
         last' = [IdleReq EXCEPT !.op = "parse", !.in = reply,
                                 !.page = ParseReply(ReplyText(reply))]
    /\ UNCHANGED <<deployment, portfolios, table, req, issued, started, succeeded>>

NextPure == CallConvertUsernameToUrl \/ CallParseReply

SpecPure == InitPure /\ [][NextPure]_vars

\* ------------------------------------------------------------------ claims
\* The Theme Table of the running deployment.
DeployedThemes == IF deployment = "gp" THEN themesGP ELSE themes

\* The requests in flight and the one just answered.
Requests == {req[r] : r \in Slots} \cup {last}

\* The request failed in the storage step (the insert returned an error).
StorageFailed(q) ==
    \/ q.error = <<"Failed to save portfolio">>
    \/ q.thrown = <<"Supabase error: ", "insert failed">>

\* The extracted object is one the rest of the resume handler can process
\* (server.js reads personalInfo's members after classification).
Processable(q) == q.op = "resume" => NormalizeSocial(q.data).ok

\* The classification call threw, or replied a label that is no Theme Table
\* key (the empty label included).
ClassificationFailed(q) ==
    \/ q.classify = "throw"
    \/ q.classify = "reply" /\ q.label \notin ThemeKeys

\* C1: classification never fails a generate request: when extraction
\* succeeded and the classification call throws or returns an empty or
\* unknown label, the request (storage permitting) ends with a success
\* response whose theme is the Default theme.
C1_ClassificationNeverFails ==
    ( /\ last.extract = "object"
      /\ ClassificationFailed(last)
      /\ Processable(last)
      /\ ~StorageFailed(last) )
    => /\ last.status = 200
       /\ last.theme = DeployedThemes[KeyDefault]

\* The request carried a resume text that is empty or whitespace-only.
EmptyResume(q) == q.text.t = "string" /\ Trim(q.text.s) = <<>>

\* C2: a generate request whose resume text is empty or whitespace-only ends
\* with status 400, after no model call and with nothing persisted.
C2_EmptyResumeFailsFast ==
    /\ \A r \in Slots : ~EmptyResume(req[r])
    /\ EmptyResume(last)
       => /\ last.status = 400
          /\ last.nExtract = 0
          /\ last.nClassify = 0
          /\ last.nPersist = 0

\* The profiles persisted so far.
StoredProfiles ==
    {portfolios[id].data : id \in DOMAIN portfolios}
    \cup {table[i].portfolio_data : i \in DOMAIN table}

\* C3: every profession stored in a persisted profile is a Theme Table key.
C3_StoredProfessionIsThemeKey ==
    \A d \in StoredProfiles :
        (d.t = "object" /\ d.profession.t # "undefined")
        => d.profession.t = "string" /\ d.profession.s \in ThemeKeys

\* C4: the theme looked up for a label is that label's entry for a Theme
\* Table key, and the Default theme for every other label.
C4_ThemeLookupByLabel ==
    \A q \in Requests :
        (q.classify = "reply" /\ q.theme.t # "undefined")
        => q.theme = IF q.label \in ThemeKeys
                     THEN DeployedThemes[q.label]
                     ELSE DeployedThemes[KeyDefault]

\* The extraction call threw or its reply did not parse as JSON.
ExtractionFailed(q) == q.extract \in {"throw", "unparsable"}

\* C5: when the extraction call throws or its reply cannot be parsed, the
\* request ends at once with an error status: it does not stay in flight,
\* no classification call is made, no identifier is drawn and nothing is
\* persisted.
C5_ExtractionFailureAborts ==
    /\ \A r \in Slots : ~ExtractionFailed(req[r])
    /\ ExtractionFailed(last)
       => /\ last.status >= 400
          /\ last.nClassify = 0
          /\ last.nPersist = 0
          /\ last.id = 0

\* C5 witness: a request whose extraction reply did not parse has been
\* answered.
C5_Witness == last.extract = "unparsable" /\ last.status = 500

\* C6: when the reply does not parse after fence stripping and the brace
\* fallback, parseResumeWithAI fails with the dedicated error, and the
\* extraction call was issued once.
C6_DedicatedMalformedError ==
    (last.op \in {"resume", "netlify"} /\ last.extract = "unparsable")
    => /\ last.thrown = InvalidJsonMessage
       /\ last.nExtract = 1

Answers == last' # last /\ last'.pc = "done"

\* This step stores exactly one new record, the one of the request it
\* answers.
StoresOwnRecord ==
    IF deployment = "express"
    THEN /\ table' = table
         /\ last'.id \notin DOMAIN portfolios
         /\ DOMAIN portfolios' = DOMAIN portfolios \cup {last'.id}
         /\ \A k \in DOMAIN portfolios : portfolios'[k] = portfolios[k]
         /\ portfolios'[last'.id].data = last'.data
         /\ portfolios'[last'.id].theme = last'.theme
         /\ portfolios'[last'.id].profilePictureUrl = last'.pic
    ELSE /\ portfolios' = portfolios
         /\ table' = Append(table, last'.row)
         /\ last'.row.portfolio_data = last'.data

\* What a manual request that is answered 200 has persisted, per deployment.
ManualPersisted(q) ==
    CASE q.op = "gp" ->
            /\ q.row.selected_theme = ThemeDefaultGP
            /\ q.data.t = "object" => q.data.profession = Str(KeyDefault)
      [] q.op = "netlify" ->
            /\ q.row.selected_theme = q.in.body.theme.name
            /\ q.data = q.in.body.portfolioData
      [] OTHER ->
            /\ q.theme = q.in.theme
            /\ q.data.profession = Undef

UrlOrEmpty(v) ==
    \/ ~Truthy(v)
    \/ v.t = "string" /\ (StartsWith(v.s, "http://") \/ StartsWith(v.s, "https://"))

\* C8: every stored record's personalInfo.linkedin and personalInfo.github
\* is absent or empty, or a full URL; no bare username is stored.
C8_StoredSocialFieldsAreUrls ==
    \A d \in StoredProfiles :
        (d.t = "object" /\ d.personalInfo.t = "object")
        => UrlOrEmpty(d.personalInfo.linkedin) /\ UrlOrEmpty(d.personalInfo.github)

\* This step answers a generate request (resume or manual data) with success.
AnswersGenerateOk ==
    /\ Answers
    /\ last'.branch # "none"
    /\ last'.status = 200

\* This step is one of the update operation.
UpdateStep == Answers /\ last'.op = "update"

\* C9: a generate request either completes and persists, or fails and
\* persists nothing: the step that answers it with success stores exactly one
\* record, its own; every other step of a generate request, the step that
\* answers it with an error included, leaves the store as it was.
C9_PersistAllOrNothing ==
    [][IF AnswersGenerateOk THEN StoresOwnRecord
       ELSE UpdateStep \/ (portfolios' = portfolios /\ table' = table)]_vars

\* C9 witness: a generate request failed in the storage step.
C9_Witness == last.branch # "none" /\ last.status = 500 /\ StorageFailed(last)

\* The number of records the store holds under identifiers of create
\* requests (an update can add one under an inherited member's name).
StoredCount == Cardinality(DOMAIN portfolios \cap Ids) + Len(table)

\* C10: every successful create request has added one record of its own:
\* the store holds as many records as create requests have succeeded, no
\* request persists more than one, and the identifiers drawn for the rows
\* are pairwise distinct.
C10_NoDeduplication ==
    /\ StoredCount = succeeded
    /\ \A q \in Requests : q.nPersist <= 1
    /\ \A i, j \in DOMAIN table :
          (i # j /\ table[i].share_id # 0) => table[i].share_id # table[j].share_id

\* C10 witness: the same submission persisted twice: two records with equal
\* contents are stored, under distinct identifiers.
C10_Witness ==
    /\ succeeded = 2
    /\ \/ \E i, j \in DOMAIN portfolios : i # j /\ portfolios[i] = portfolios[j]
       \/ \E i, j \in DOMAIN table :
             /\ i # j
             /\ table[i].portfolio_data = table[j].portfolio_data
             /\ table[i].selected_theme = table[j].selected_theme

\* C11: the update operation answers every request with 200 (the identifier
\* was known and the record under it now holds the body's data, theme and
\* picture) or with 404 (the identifier was unknown and the store is left as
\* it was); no body produces any other outcome.
C11_UpdateAnswers200Or404 ==
    [][(Answers /\ last'.op = "update")
       => \/ /\ last'.status = 200
             /\ last'.in.id \in DOMAIN portfolios
             /\ portfolios'[last'.in.id].data = last'.data
             /\ portfolios'[last'.in.id].theme = last'.in.theme
             /\ portfolios'[last'.in.id].profilePictureUrl = last'.in.profilePictureUrl
          \/ /\ last'.status = 404
             /\ last'.in.id \notin DOMAIN portfolios
             /\ portfolios' = portfolios]_vars

\* The status the view endpoint is to answer with.
ExpectedViewStatus(wellFormed, stored, renderThrows) ==
    IF ~wellFormed THEN 400
    ELSE IF ~stored THEN 404
    ELSE IF renderThrows THEN 500
    ELSE 200

\* C12: the view answers 400 for an identifier that is not UUID-shaped, 404
\* for a well-formed one with no record stored under it, 200 when the record
\* renders and 500 only when rendering throws; get-portfolio.js answers the
\* same identifiers (its select having succeeded) with the same statuses.
C12_ViewOutcomes ==
    /\ last.op = "view"
       => last.status =
            ExpectedViewStatus(uuidRegexTest(last.in.id),
                               last.in.id \in DOMAIN portfolios,
                               /\ last.in.id \in DOMAIN portfolios
                               /\ RenderExpressThrows(portfolios[last.in.id]))
    /\ (last.op = "get-portfolio" /\ ~last.in.query.none /\ ~last.in.selectFails)
       => last.status =
            ExpectedViewStatus(uuidRegexTest(last.in.query.id),
                               RowsWithShareId(last.in.query.id) # {},
                               \E i \in RowsWithShareId(last.in.query.id) :
                                   generatePortfolioHTMLThrows(Selected(table[i])))

\* C13: no step removes a persisted record: every identifier of the
\* in-memory store stays in it, and every row of the hosted table stays in
\* its place under its identifier.
C13_NeverDeleted ==
    [][/\ DOMAIN portfolios \subseteq DOMAIN portfolios'
       /\ Len(table') >= Len(table)
       /\ \A i \in DOMAIN table : table'[i].share_id = table[i].share_id]_vars

\* C13 witness: a second record has been persisted while the first is still
\* stored.
C13_Witness ==
    /\ succeeded = 2
    /\ last.status = 200
    /\ \/ Cardinality(DOMAIN portfolios) = 2
       \/ Len(table) = 2

\* C14: a generate request issues the extraction call at most once and the
\* classification call at most once; the classification call is issued only
\* after the extraction call has returned a reply that parsed, so while one
\* call is awaited the other is not.
C14_TwoSequentialModelCalls ==
    \A q \in Requests :
        /\ q.nExtract <= 1
        /\ q.nClassify <= 1
        /\ q.nClassify = 1 => (q.nExtract = 1 /\ q.extract \in {"object", "null"})
        /\ q.pc = "extract" => (q.nExtract = 1 /\ q.nClassify = 0 /\ q.extract = "none")
        /\ q.pc = "classify" => (q.nClassify = 1 /\ q.classify = "none")

\* C14 witness: a generate request has been answered 200 after both calls.
C14_Witness ==
    /\ last.branch = "resume"
    /\ last.status = 200
    /\ last.nExtract = 1
    /\ last.nClassify = 1

\* The argument starts with 'http://' or 'https://'.
IsUrl(v) == v.t = "string" /\ (StartsWith(v.s, "http://") \/ StartsWith(v.s, "https://"))

\* C15: convertUsernameToUrl(platform, value) never fails; it returns the
\* empty string for an empty, null or undefined value, the value itself when
\* it starts with 'http://' or 'https://', and otherwise the value behind
\* 'https://linkedin.com/in/' for platform 'linkedin' and behind
\* 'https://github.com/' for platform 'github'.
C15_NormalizerResult ==
    last.op = "convertUsernameToUrl"
    => /\ last.page.ok
       /\ ~Truthy(last.in.username) => last.page.v = Str(<<>>)
       /\ IsUrl(last.in.username) => last.page.v = last.in.username
       /\ (last.in.username.t = "string" /\ Truthy(last.in.username)
           /\ ~IsUrl(last.in.username))
          => /\ last.in.platform = "linkedin"
                => last.page.v = Str(<<"https://", "linkedin.com/in/">> \o last.in.username.s)
             /\ last.in.platform = "github"
                => last.page.v = Str(<<"https://", "github.com/">> \o last.in.username.s)

\* C16: convertUsernameToUrl is idempotent: for platform 'linkedin' or
\* 'github' and every value, the call returns, and applied to its own result
\* it returns that result again.
C16_NormalizerIdempotent ==
    (last.op = "convertUsernameToUrl" /\ last.in.platform \in {"linkedin", "github"})
    => /\ last.page.ok
       /\ convertUsernameToUrl(last.in.platform, last.page.v) = last.page

\* C17: parseResumeWithAI (server.js, unnamed variant) returns the object of
\* every reply that holds one well-formed object with prose before or after
\* it, prose with braces and prose after a leading object included.
C17_RecoversEmbeddedObject ==
    (last.op = "parse" /\ last.in.kind = "prose" /\ deployment \in {"express", "netlify"})
    => last.page = [kind |-> "object", text |-> last.in.object]

\* C18: in every variant the reply parsing returns the object of a reply
\* that is one well-formed object inside a markdown code fence.
C18_FencedReplyParses ==
    (last.op = "parse" /\ last.in.kind = "fenced")
    => last.page = [kind |-> "object", text |-> last.in.object]

\* The record a view request was answered from: its profile and picture.
Viewed ==
    IF last.op = "view"
    THEN [data |-> portfolios[last.in.id].data,
          pic |-> portfolios[last.in.id].profilePictureUrl]
    ELSE [data |-> table[CHOOSE i \in RowsWithShareId(last.in.query.id) : TRUE].portfolio_data,
          pic |-> table[CHOOSE i \in RowsWithShareId(last.in.query.id) : TRUE].profile_picture_url]

\* The last step answered a view request for a stored record (the select of
\* get-portfolio.js having succeeded).
ViewedStored ==
    \/ last.op = "view" /\ last.in.id \in DOMAIN portfolios
    \/ /\ last.op = "get-portfolio"
       /\ ~last.in.query.none
       /\ ~last.in.selectFails
       /\ RowsWithShareId(last.in.query.id) # {}

\* v is absent or null.
Absent(v) == v.t \in {"undefined", "null"}

\* Each of the profile's lists is an array, absent or null, and the record
\* has a theme.
WellFormedBesidesAbsence ==
    /\ CanRead(Viewed.data)
       => \A f \in {"skills", "experience", "projects"} :
             Get(Viewed.data, f).t \in {"undefined", "null", "array"}
    /\ last.op = "view" => CanRead(portfolios[last.in.id].theme)

\* personalInfo.f of the viewed record, undefined when personalInfo is absent.
ViewedPersonal(f) ==
    IF CanRead(Get(Viewed.data, "personalInfo"))
    THEN Get(Get(Viewed.data, "personalInfo"), f) ELSE Undef

\* C19: a view of a stored record whose profile fields are present, absent
\* or null is answered 200, with the placeholder in the place of every absent
\* field.
C19_RenderAbsentFields ==
    (ViewedStored /\ WellFormedBesidesAbsence)
    => /\ last.status = 200
       /\ Absent(ViewedPersonal("name")) => last.page.sections.name = NoName
       /\ Absent(ViewedPersonal("email")) => last.page.sections.email = NoEmail
       /\ Absent(Get(Viewed.data, "summary")) => last.page.sections.summary = NoSummary
       /\ Absent(Get(Viewed.data, "skills")) => last.page.sections.skills = NoSkills
       /\ Absent(Get(Viewed.data, "experience"))
          => last.page.sections.experience = NoExperience
       /\ Absent(Get(Viewed.data, "projects")) => last.page.sections.projects = NoProjects
       /\ Absent(Viewed.pic) => StartsWith(last.page.image, "https://")

\* The tokens of s.
Tokens(s) == {s[i] : i \in 1..Len(s)}

\* The viewed record's projects list is empty or absent.
NoProjectsStored ==
    \/ Absent(Get(Viewed.data, "projects"))
    \/ /\ Get(Viewed.data, "projects").t = "array"
       /\ Get(Viewed.data, "projects").items = <<>>

\* C20: in every document a view renders from a stored record, the Projects
\* section is the placeholder 'No projects listed.' when the record's
\* projects list is empty or absent, and holds no such placeholder when the
\* list has a project.
C20_NoProjectsPlaceholder ==
    (ViewedStored /\ last.status = 200)
    => IF NoProjectsStored
       THEN last.page.sections.projects = NoProjects
       ELSE "No projects listed." \notin Tokens(last.page.sections.projects)

\* C20 witness: get-portfolio.js has rendered a stored record without
\* projects, with the placeholder as its Projects section.
C20_Witness ==
    /\ ViewedStored
    /\ last.op = "get-portfolio"
    /\ last.status = 200
    /\ NoProjectsStored
    /\ last.page.sections.projects = NoProjects

\* Messages the errors caught by a generate handler can carry: a failure of
\* the model call, a JSON syntax error, a storage error, a PDF error other
\* than the pattern-matched one.
InternalMessages ==
    ModelErrors \cup {<<"Unexpected token in JSON">>,
                      <<"Supabase error: ", "insert failed">>,
                      <<"Invalid PDF structure">>}

\* The catch block of the handler that served q, on an error with the given
\* message.
HandlerCatch(q, message) ==
    CASE q.op = "resume" -> ResumeCatch(q, message)
      [] q.op = "manual" -> Fail(q, 500, GenericManualError, message)
      [] q.op = "netlify" -> NetlifyCatch(q, message)
      [] OTHER -> CatchGP(q, message)

\* C21: the body of a failing generate response does not depend on the
\* message of the internal error: had the error carried any other message
\* (the pattern-matched PDF-corruption message aside), the handler would have
\* answered with the same body.
C21_GenericErrorBodies ==
    ( /\ last.op \in {"resume", "manual", "netlify", "gp"}
      /\ last.thrown # <<>>
      /\ last.thrown # <<"bad XRef entry">> )
    => \A m \in InternalMessages : HandlerCatch(last, m).error = last.error

\* C22: the image endpoint answers a stored identifier with 200, the bytes of
\* the record's data URL and its MIME type as Content-Type when the picture
\* is a well-formed base64 data URL, and with the redirect to the fixed
\* placeholder otherwise; it answers no stored identifier with an error
\* status.
C22_ImageBytesOrRedirect ==
    (last.op = "image" /\ last.in.id \in DOMAIN portfolios)
    => LET pic == portfolios[last.in.id].profilePictureUrl
       IN IF pic.t = "string" /\ DataUrlMatch(pic.s)
          THEN /\ last.status = 200
               /\ last.page = [contentType |-> pic.s[2], bytes |-> pic.s[4]]
          ELSE /\ last.status = 302
               /\ last.page.location =
                    <<"https://", "via.placeholder.com/1200x627/4F46E5/FFFFFF?text=Portfolio">>

\* This step answers a view request.
ViewStep == Answers /\ last'.op \in {"view", "get-portfolio"}

HealthRequest ==
    \/ last.op = "health"
    \/ /\ last.op \in {"netlify", "gp"}
       /\ last.in.event.httpMethod = "GET"

\* C24: a GET health request is answered 200 with status 'OK', after no
\* model call and with nothing persisted.
C24_HealthAlwaysOk ==
    /\ [](HealthRequest
            => /\ last.status = 200
               /\ last.error = <<"OK">>
               /\ last.nExtract = 0
               /\ last.nClassify = 0
               /\ last.nPersist = 0)
    /\ [][(Answers /\ HealthRequest')
            => (portfolios' = portfolios /\ table' = table)]_vars

\* The classifications that have a style set of their own.
StyledKeys == {KeySoftwareDeveloper, KeyGraphicDesigner, KeyDataScientist}

\* C25: a row a serverless generate handler persisted for a resume
\* classified P, with P one of the three styled classifications, renders in
\* P's styles: getThemeStyles on the row's selected_theme takes P's branch,
\* and the document get-portfolio.js builds from a row stored with the theme
\* of P has P's body classes.
C25_HostedThemeRoundTrip ==
    /\ ( /\ last.op \in {"netlify", "gp"}
         /\ last.branch = "resume"
         /\ last.status = 200
         /\ last.classify = "reply"
         /\ last.label \in StyledKeys )
       => getThemeStyles(SelectedTheme(last.row)) = DeployedThemes[last.label].background
    /\ (last.op = "get-portfolio" /\ last.status = 200)
       => \A i \in RowsWithShareId(last.id), k \in StyledKeys :
             SelectedTheme(table[i]) \in {DeployedThemes[k], Str(DeployedThemes[k].name)}
             => last.page.bodyClass = DeployedThemes[k].background

\* The record's theme makes the template of GET /portfolio/:id throw.
ThemeThrows(portfolio) ==
    \/ ~CanRead(portfolio.theme)
    \/ "secondaryColor" \notin DOMAIN portfolio.theme

\* C26: every record of the in-memory store has one of the four Theme Table
\* entries as its theme, and no view of a stored identifier is answered 500
\* because of the record's theme.
C26_StoredThemeInTable ==
    /\ \A id \in DOMAIN portfolios : portfolios[id].theme \in {themes[k] : k \in ThemeKeys}
    /\ (last.op = "view" /\ last.in.id \in DOMAIN portfolios /\ last.status = 500)
       => ~ThemeThrows(portfolios[last.in.id])

\* C27: the step that answers an update of identifier A with success leaves
\* the set of stored identifiers and every record under another identifier as
\* they were, keeps A's createdAt, sets updatedAt, and makes A's data, theme
\* and picture those of the request.
C27_UpdateFrame ==
    [][(Answers /\ last'.op = "update" /\ last'.status = 200)
       => /\ DOMAIN portfolios' = DOMAIN portfolios
          /\ \A k \in DOMAIN portfolios \ {last'.in.id} : portfolios'[k] = portfolios[k]
          /\ portfolios'[last'.in.id].createdAt = portfolios[last'.in.id].createdAt
          /\ portfolios'[last'.in.id].updatedAt
          /\ portfolios'[last'.in.id].data = last'.data
          /\ portfolios'[last'.in.id].theme = last'.in.theme
          /\ portfolios'[last'.in.id].profilePictureUrl = last'.in.profilePictureUrl
          /\ table' = table]_vars

\* C29: every identifier of the in-memory store matches the UUID pattern of
\* the view endpoint, and no view of a stored identifier is answered 400.
C29_StoredIdsAreUuids ==
    /\ \A id \in DOMAIN portfolios : uuidRegexTest(id)
    /\ (last.op = "view" /\ last.in.id \in DOMAIN portfolios) => last.status # 400

\* The slot of the request this step answers, before the step.
AnsweredSlots == {r \in DOMAIN req : req[r].n = last'.n /\ req[r].pc # "idle"}

\* What the answered request stores and returns is derived from what that
\* request itself had read: its own extracted profile with the social fields
\* normalized, the theme of its own classification reply, its own photo or
\* the placeholder of its own name.
DerivedFromOwnRequest ==
    \E r \in AnsweredSlots :
        /\ last'.in = req[r].in
        /\ last'.text = req[r].text
        /\ last'.data = NormalizeSocial(req[r].data).data
        /\ last'.theme = IF last'.classify = "throw" THEN themes[KeyDefault]
                         ELSE ThemeLookup(themes, last'.label)
        /\ last'.pic = IF req[r].in.hasPhoto THEN PhotoDataUrl
                       ELSE PlaceholderPhoto(last'.data.personalInfo)

\* C28: with resume-generate requests interleaving at their await points, a
\* step of one request leaves every other request in flight as it was; the
\* step that answers a request with success stores exactly one new record,
\* under an identifier no other record has, holding the profile, theme and
\* picture of that request, which are derived from that request only; and
\* the store holds one record per request that succeeded.
C28_InterleavedGenerateIndependent ==
    /\ [][\A r1, r2 \in DOMAIN req :
            (req'[r1] # req[r1] /\ req'[r2] # req[r2]) => r1 = r2]_vars
    /\ [][AnswersGenerateOk
            => (StoresOwnRecord /\ DerivedFromOwnRequest /\ last'.nPersist = 1)]_vars
    /\ [][AnswersGenerateOk \/ (portfolios' = portfolios)]_vars
    /\ [](Cardinality(DOMAIN portfolios) = succeeded)

\* C28 witness: the request that arrived first has been answered with success
\* after the one that arrived second had been: the second ran between
\* await points of the first, and the two records stored differ.
C28_Witness ==
    /\ last.n = 1
    /\ last.status = 200
    /\ succeeded = 2
    /\ \E id \in DOMAIN portfolios \ {last.id} : portfolios[id] # portfolios[last.id]

====
